---- MODULE Spec2Model ----
(***************************************************************************)
(* petl.transform.basics: lazy table views (cut, cutout, cat, addfield,    *)
(* tail, movefield, annex, addfieldusingcontext) modelled as generators.   *)
(*                                                                         *)
(* A table is a header (a sequence of field names) and a sequence of data  *)
(* rows (sequences of values).  A view holds its construction parameters   *)
(* and its sources; every iteration of a view is a generator with its own  *)
(* locals.  One action is one resumption of a generator (one next() call), *)
(* from its current suspension point to its next yield, return or raise.   *)
(* Positions (selectors, indices) are zero-based as in the source; TLA+    *)
(* sequences are one-based, so row[i] of the source is row[i + 1] here.    *)
(***************************************************************************)
EXTENDS Integers, Sequences, FiniteSets, TLC

VARIABLES view,    \* the view object: its kind and construction parameters
          tables,  \* the source tables the view holds references to
          gen,     \* the live iterations of the view: id -> generator locals
          pep479   \* the interpreter turns a StopIteration that escapes a
                   \* generator body into RuntimeError (Python 3.7 and
                   \* later); before, it silently ends the generator

vars == <<view, tables, gen, pep479>>

(***************************************************************************)
(* Bounds of the model.                                                    *)
(***************************************************************************)
MaxRows == 2      \* data rows of the sources of one view, all together
MaxHdr == 2       \* fields per source header
MaxStream == 3    \* data rows of the source of a windowing view
MaxIters == 2     \* simultaneous iterations of one view

(***************************************************************************)
(* Values.  None is Python's None, the default missing sentinel; Dash is a *)
(* caller-supplied sentinel.  The cell of table t, row r, column c holds a *)
(* value that identifies its origin, so any misplaced value is visible.    *)
(***************************************************************************)
None == 0
Dash == -1
Sentinels == {None, Dash}
Cell(t, r, c) == 100 * t + 10 * r + c

Names == {"foo", "bar"}
NoName == ""
NoPos == -1

Min(a, b) == IF a < b THEN a ELSE b
Max(a, b) == IF a > b THEN a ELSE b

SeqsOfLen(S, lo, hi) == UNION {[1..k -> S] : k \in lo..hi}

\* The source table number t with the given header and row lengths.
TableOf(t, hdr, lens) ==
    [hdr |-> hdr,
     rows |-> [r \in 1..Len(lens) |-> [c \in 1..lens[r] |-> Cell(t, r, c)]]]

\* The lengths a ragged row under a header of n fields is given: empty,
\* one value short, exact, one value long.
RowLens(n) == {0, n, n + 1} \cup (IF n > 0 THEN {n - 1} ELSE {})

\* Every table number t with a header of hlo..hhi fields and nlo..nhi
\* ragged data rows.
TablesFor(t, hlo, hhi, nlo, nhi) ==
    UNION {{TableOf(t, hdr, lens) :
                lens \in SeqsOfLen(RowLens(Len(hdr)), nlo, nhi)} :
           hdr \in SeqsOfLen(Names, hlo, hhi)}

\* The lengths of a row that passes through whole or is measured against
\* its header only: one value short, exact, one value long.
NearLens(n) == {n, n + 1} \cup (IF n > 0 THEN {n - 1} ELSE {})

\* The table number t whose header is the first n field names.
FieldNo(c) == IF c % 3 = 1 THEN "foo" ELSE IF c % 3 = 2 THEN "bar" ELSE "baz"

PlainTables(t, hlo, hhi, nlo, nhi) ==
    UNION {{TableOf(t, [c \in 1..n |-> FieldNo(c)], lens) :
                lens \in SeqsOfLen(NearLens(n), nlo, nhi)} :
           n \in hlo..hhi}

(***************************************************************************)
(* Python list and tuple primitives.                                       *)
(***************************************************************************)
\* seq.index(x): zero-based position of the first occurrence (x in seq).
PyIndex(seq, x) == (CHOOSE i \in 1..Len(seq) :
                        seq[i] = x /\ \A j \in 1..(i - 1) : seq[j] # x) - 1

PyIn(x, seq) == \E i \in 1..Len(seq) : seq[i] = x

\* list.insert(index, x): negative indices count from the end, and the
\* position is clamped into 0..len.
PyInsertPos(n, index) ==
    IF index < 0 THEN Max(0, n + index) ELSE Min(n, index)

PyInsert(seq, index, x) ==
    LET p == PyInsertPos(Len(seq), index)
    IN  SubSeq(seq, 1, p) \o <<x>> \o SubSeq(seq, p + 1, Len(seq))

\* [x] * n
Repeat(x, n) == [k \in 1..n |-> x]

(***************************************************************************)
(* External collaborators (petl.util.base), known through their interface. *)
(***************************************************************************)
\* A selector is a field name or a zero-based position.
NameSel(f) == [name |-> f, pos |-> NoPos]
PosSel(p) == [name |-> NoName, pos |-> p]

\* The indices one selector may resolve to; NoPos stands for the resolution
\* error.  The choice among several columns of the same name is the
\* resolver's: it may pick any of them or refuse the selector.
ResolveOne(hdr, s) ==
    IF s.pos = NoPos
    THEN LET m == {i \in 0..(Len(hdr) - 1) : hdr[i + 1] = s.name}
         IN  IF m = {} THEN {NoPos}
             ELSE IF Cardinality(m) = 1 THEN m ELSE m \cup {NoPos}
    ELSE IF s.pos < Len(hdr) THEN {s.pos} ELSE {NoPos}

ResolutionError == [ok |-> FALSE, idx |-> <<>>]

\* asindices(hdr, spec): the possible outcomes, a list of indices or the
\* resolution error.
asindices(hdr, spec) ==
    LET all == {r \in [1..Len(spec) -> (0..(Len(hdr) - 1)) \cup {NoPos}] :
                    \A k \in 1..Len(spec) : r[k] \in ResolveOne(hdr, spec[k])}
    IN  {[ok |-> TRUE, idx |-> r] :
             r \in {q \in all : \A k \in 1..Len(q) : q[k] # NoPos}}
        \cup (IF \E q \in all : \E k \in 1..Len(q) : q[k] = NoPos
              THEN {ResolutionError} ELSE {})

\* rowgetter(*indices)(row) raises IndexError when an index is out of range.
RowGetterRaises(indices, row) ==
    \E k \in 1..Len(indices) : indices[k] >= Len(row)

rowgetter(indices, row) == [k \in 1..Len(indices) |-> row[indices[k] + 1]]

(***************************************************************************)
(* cut, cutout, movefield: column selection.                               *)
(***************************************************************************)
\* FillShort with the configured sentinel ignored (always None).
FillShortNone(indices, row, missing) ==
    [k \in 1..Len(indices) |->
        IF indices[k] < Len(row) THEN row[indices[k] + 1] ELSE None]

\* tuple(row[i] if i < len(row) else missing for i in indices)
FillShort(indices, row, missing) ==
    [k \in 1..Len(indices) |->
        IF indices[k] < Len(row) THEN row[indices[k] + 1] ELSE missing]

\* try: yield transform(row) / except IndexError: yield the padded tuple
TransformRow(indices, row, missing) ==
    IF RowGetterRaises(indices, row)
    THEN FillShort(indices, row, missing)
    ELSE rowgetter(indices, row)

\* Complement with nothing taken out.
ComplementAll(n, indicesout, i) == [k \in 1..n |-> k - 1]

\* [i for i in range(len(flds)) if i not in indicesout]
RECURSIVE Complement(_, _, _)
Complement(n, indicesout, i) ==
    IF i >= n THEN <<>>
    ELSE (IF PyIn(i, indicesout) THEN <<>> ELSE <<i>>)
         \o Complement(n, indicesout, i + 1)

\* [f for f in fields if f != field]
RECURSIVE Without(_, _)
Without(fields, field) ==
    IF fields = <<>> THEN <<>>
    ELSE (IF Head(fields) # field THEN <<Head(fields)>> ELSE <<>>)
         \o Without(Tail(fields), field)

\* The locals of a fresh generator: nothing pulled from any of the n
\* sources, nothing yielded.  pos[t] counts the items pulled from source t
\* (its header included), src is the source being read, out the items
\* yielded so far, calls the arguments the caller's function was given.
\* prv, cur and nxt hold a record or None: <<row>> or <<>>.
NewGen(n) ==
    [pc |-> "new", pos |-> [t \in 1..n |-> 0], src |-> 1, indices |-> <<>>,
     out |-> <<>>, cache |-> <<>>, prv |-> <<>>, cur |-> <<>>, nxt |-> <<>>,
     calls |-> <<>>]

Source == tables[1]

\* The data-row loop shared by the three selection generators: pull the
\* next source row and yield its projection, or finish at exhaustion.
SelectLoop(g, indices, missing) ==
    IF g.pos[1] - 1 < Len(Source.rows)
    THEN [g EXCEPT !.pc = "rows", !.pos[1] = g.pos[1] + 1, !.indices = indices,
                   !.out = Append(g.out,
                       TransformRow(indices, Source.rows[g.pos[1]], missing))]
    ELSE [g EXCEPT !.pc = "done", !.indices = indices]

\* itercut up to its first yield, the resolver having answered r: pull the
\* header, then yield the selected field names or raise.
CutStart(g, r) ==
    IF r.ok
    THEN [g EXCEPT !.pc = "rows", !.pos[1] = 1, !.indices = r.idx,
                   !.out = <<rowgetter(r.idx, Source.hdr)>>]
    ELSE [g EXCEPT !.pc = "error", !.pos[1] = 1]

\* itercutout up to its first yield: as itercut, over the indices the
\* selection leaves.
CutOutStart(g, r) ==
    IF r.ok
    THEN LET indices == Complement(Len(Source.hdr), r.idx, 0)
         IN  [g EXCEPT !.pc = "rows", !.pos[1] = 1, !.indices = indices,
                       !.out = <<rowgetter(indices, Source.hdr)>>]
    ELSE [g EXCEPT !.pc = "error", !.pos[1] = 1]

\* itercut, first resumption: pull the header, resolve the selection, yield
\* the selected field names.
CutFirst(i) ==
    /\ view.kind = "cut"
    /\ gen[i].pc = "new"
    /\ \E r \in asindices(Source.hdr, view.spec) :
          gen' = [gen EXCEPT ![i] = CutStart(gen[i], r)]
    /\ UNCHANGED <<view, tables, pep479>>

\* itercutout, first resumption.
CutOutFirst(i) ==
    /\ view.kind = "cutout"
    /\ gen[i].pc = "new"
    /\ \E r \in asindices(Source.hdr, view.spec) :
          gen' = [gen EXCEPT ![i] = CutOutStart(gen[i], r)]
    /\ UNCHANGED <<view, tables, pep479>>

\* MoveFieldView.__iter__, first resumption: pull the header and yield the
\* rearranged field names.
MoveFieldFirst(i) ==
    /\ view.kind = "movefield"
    /\ gen[i].pc = "new"
    /\ gen' = [gen EXCEPT ![i] =
                 [gen[i] EXCEPT !.pc = "resolve", !.pos[1] = 1,
                           !.out = <<PyInsert(Without(Source.hdr, view.field),
                                              view.index, view.field)>>]]
    /\ UNCHANGED <<view, tables, pep479>>

\* MoveFieldView.__iter__, second resumption: resolve the new field order
\* against the source header, then enter the data-row loop.
MoveFieldResolve(i) ==
    /\ view.kind = "movefield"
    /\ gen[i].pc = "resolve"
    /\ \E r \in asindices(Source.hdr,
                          [k \in 1..Len(gen[i].out[1]) |->
                              NameSel(gen[i].out[1][k])]) :
          gen' = [gen EXCEPT ![i] =
                    IF r.ok
                    THEN SelectLoop(gen[i], r.idx, view.missing)
                    ELSE [gen[i] EXCEPT !.pc = "error"]]
    /\ UNCHANGED <<view, tables, pep479>>

\* A later resumption of any of the three: one turn of the data-row loop.
SelectNext(i) ==
    /\ view.kind \in {"cut", "cutout", "movefield"}
    /\ gen[i].pc = "rows"
    /\ gen' = [gen EXCEPT ![i] =
                 SelectLoop(gen[i], gen[i].indices, view.missing)]
    /\ UNCHANGED <<view, tables, pep479>>

Selectors == {NameSel(f) : f \in Names \cup {"qux"}} \cup {PosSel(0), PosSel(1)}

SelectViews ==
    {[kind |-> k, spec |-> s, missing |-> m, field |-> NoName, index |-> 0] :
        k \in {"cut", "cutout"}, s \in SeqsOfLen(Selectors, 1, 2),
        m \in Sentinels}
    \cup
    {[kind |-> "movefield", spec |-> <<>>, missing |-> m,
      field |-> f, index |-> x] :
        f \in Names \cup {"qux"}, x \in (-1)..(MaxHdr + 1),
        m \in Sentinels}

InitSelect ==
    /\ view \in SelectViews
    /\ tables \in {<<t>> : t \in TablesFor(1, 1, MaxHdr, 0, MaxRows)}
    /\ gen = [i \in {1} |-> NewGen(1)]
    /\ pep479 = TRUE

NextSelect ==
    \/ \E i \in DOMAIN gen : CutFirst(i)
    \/ \E i \in DOMAIN gen : CutOutFirst(i)
    \/ \E i \in DOMAIN gen : MoveFieldFirst(i)
    \/ \E i \in DOMAIN gen : MoveFieldResolve(i)
    \/ \E i \in DOMAIN gen : SelectNext(i)

SpecSelect == InitSelect /\ [][NextSelect]_vars

\* Selector k of the view was resolved to index x of the header.
ResolvedTo(hdr, s, x) ==
    /\ x \in 0..(Len(hdr) - 1)
    /\ IF s.pos = NoPos THEN hdr[x + 1] = s.name ELSE x = s.pos

\* C1: once the selectors of cut have resolved, the first item yielded is
\* the source header's fields at the resolved indices in selector order, and
\* every source data row pulled so far has yielded exactly one tuple, of
\* that row's values at those indices, with the configured missing sentinel
\* wherever the index is beyond the row's end; no error is raised.
C1_CutProjects ==
    \A i \in DOMAIN gen :
        LET g == gen[i]
            n == Len(view.spec)
        IN  (view.kind = "cut" /\ g.pc \in {"rows", "done"}) =>
              /\ Len(g.indices) = n
              /\ \A k \in 1..n :
                     ResolvedTo(Source.hdr, view.spec[k], g.indices[k])
              /\ Len(g.out) = g.pos[1]
              /\ Len(g.out[1]) = n
              /\ \A k \in 1..n : g.out[1][k] = Source.hdr[g.indices[k] + 1]
              /\ \A r \in 1..(g.pos[1] - 1) :
                    /\ Len(g.out[r + 1]) = n
                    /\ \A k \in 1..n :
                          g.out[r + 1][k] =
                             IF g.indices[k] < Len(Source.rows[r])
                             THEN Cell(1, r, g.indices[k] + 1)
                             ELSE view.missing

\* C1 witness: a finished cut with a custom sentinel that reordered two
\* columns, padded a short row and dropped the tail of a long row.
C1_Witness ==
    LET g == gen[1]
    IN  /\ view.kind = "cut" /\ g.pc = "done" /\ view.missing = Dash
        /\ Len(g.indices) = 2 /\ g.indices[1] > g.indices[2]
        /\ \E r \in 1..Len(Source.rows) :
              Len(Source.rows[r]) <= g.indices[1] /\ g.out[r + 1][1] = Dash
        /\ \E r \in 1..Len(Source.rows) :
              Len(Source.rows[r]) > Len(Source.hdr)

\* The view names a column the source header does not have.
Unmappable ==
    IF view.kind = "movefield"
    THEN ~PyIn(view.field, Source.hdr)
    ELSE \E k \in 1..Len(view.spec) :
            ResolveOne(Source.hdr, view.spec[k]) = {NoPos}

\* C6: for cut, cutout and movefield a selector the resolver cannot map
\* raises on the first resumption, before anything (the header included) is
\* yielded; a constructed view has pulled nothing from its source.
C6_ResolutionErrorBeforeAnyYield ==
    \A i \in DOMAIN gen :
        /\ gen[i].pc = "new" => (gen[i].pos[1] = 0 /\ gen[i].out = <<>>)
        /\ (Unmappable /\ gen[i].pc # "new") =>
              (gen[i].pc = "error" /\ gen[i].out = <<>>)

\* The orders the n columns 0..n-1 can be put in.
Orders(n) ==
    {f \in [1..n -> 0..(n - 1)] :
        \A a, b \in 1..n : a # b => f[a] # f[b]}

\* C11: for a header that has the named field (repeated names allowed) and
\* any target index, movefield raises no error and yields a rearrangement
\* of the source header, no field lost or added: the named field sits where
\* inserting at the target index puts it, the other fields keep their
\* relative order, and every data row pulled so far has yielded its values
\* in that same column order, with the missing sentinel wherever the column
\* is beyond the row's end.
C11_MoveFieldRearranges ==
    \A i \in DOMAIN gen :
        LET g == gen[i]
            hdr == Source.hdr
            n == Len(hdr)
            p == PyInsertPos(n - 1, view.index) + 1
        IN  (view.kind = "movefield" /\ PyIn(view.field, hdr)
                /\ g.pc # "new") =>
              /\ g.pc # "error"
              /\ \E f \in Orders(n) :
                    /\ g.out[1] = [k \in 1..n |-> hdr[f[k] + 1]]
                    /\ g.out[1][p] = view.field
                    /\ \A a, b \in (1..n) \ {p} : a < b => f[a] < f[b]
                    /\ \A r \in 1..(Len(g.out) - 1) :
                          g.out[r + 1] =
                             [k \in 1..n |->
                                 IF f[k] < Len(Source.rows[r])
                                 THEN Cell(1, r, f[k] + 1)
                                 ELSE view.missing]

(***************************************************************************)
(* cut and cutout of the same table by the same selection, side by side.   *)
(***************************************************************************)
\* Iteration 1 is that of cut(T, S), iteration 2 that of cutout(T, S).
PairCutFirst ==
    /\ view.kind = "cutpair"
    /\ gen[1].pc = "new"
    /\ \E r \in asindices(Source.hdr, view.spec) :
          gen' = [gen EXCEPT ![1] = CutStart(gen[1], r)]
    /\ UNCHANGED <<view, tables, pep479>>

PairCutOutFirst ==
    /\ view.kind = "cutpair"
    /\ gen[2].pc = "new"
    /\ \E r \in asindices(Source.hdr, view.spec) :
          gen' = [gen EXCEPT ![2] = CutOutStart(gen[2], r)]
    /\ UNCHANGED <<view, tables, pep479>>

\* A later resumption of either iteration.
PairNext(i) ==
    /\ view.kind = "cutpair"
    /\ gen[i].pc = "rows"
    /\ gen' = [gen EXCEPT ![i] =
                 SelectLoop(gen[i], gen[i].indices, view.missing)]
    /\ UNCHANGED <<view, tables, pep479>>

InitPair ==
    /\ view \in {[kind |-> "cutpair", spec |-> s, missing |-> None,
                   field |-> NoName, index |-> 0] :
                     s \in SeqsOfLen(Selectors, 1, 2)}
    /\ tables \in {<<t>> : t \in PlainTables(1, 1, MaxHdr + 1, 0, MaxRows)}
    /\ gen = [i \in {1, 2} |-> NewGen(1)]
    /\ pep479 = TRUE

NextPair ==
    \/ PairCutFirst
    \/ PairCutOutFirst
    \/ \E i \in DOMAIN gen : PairNext(i)

SpecPair == InitPair /\ [][NextPair]_vars

DistinctNames(hdr) == \A a, b \in 1..Len(hdr) : a # b => hdr[a] # hdr[b]

FieldSet(flds) == {flds[k] : k \in 1..Len(flds)}

\* flds lists some of hdr's fields in the order hdr has them.
InHeaderOrder(flds, hdr) ==
    \A a, b \in 1..Len(flds) :
        a < b => \E x, y \in 1..Len(hdr) :
                    x < y /\ hdr[x] = flds[a] /\ hdr[y] = flds[b]

\* C12: for a header of distinct field names and a selection that
\* resolves, the headers yielded by cut(T, S) and cutout(T, S) have no
\* field in common, together they hold exactly the source header's fields,
\* and the header of cutout lists its fields in their original order.
C12_CutAndCutOutPartition ==
    (/\ view.kind = "cutpair" /\ DistinctNames(Source.hdr)
     /\ gen[1].pc \in {"rows", "done"} /\ gen[2].pc \in {"rows", "done"}) =>
        /\ FieldSet(gen[1].out[1]) \cap FieldSet(gen[2].out[1]) = {}
        /\ FieldSet(gen[1].out[1]) \cup FieldSet(gen[2].out[1])
              = FieldSet(Source.hdr)
        /\ InHeaderOrder(gen[2].out[1], Source.hdr)

\* C12 witness: both iterations finished over a three-field header, the
\* middle field selected and the two around it left.
C12_Witness ==
    /\ view.kind = "cutpair" /\ DistinctNames(Source.hdr)
    /\ Len(Source.hdr) = 3 /\ Len(Source.rows) >= 1
    /\ gen[1].pc = "done" /\ gen[2].pc = "done"
    /\ gen[1].out[1] = <<Source.hdr[2]>>
    /\ gen[2].out[1] = <<Source.hdr[1], Source.hdr[3]>>

(***************************************************************************)
(* cat: concatenation with header reconciliation.                          *)
(***************************************************************************)
\* AddNewFields without the membership test: every field is appended.
AddEveryField(outflds, flds) == outflds \o flds

\* for f in flds: if f not in outflds: outflds.append(f)
RECURSIVE AddNewFields(_, _)
AddNewFields(outflds, flds) ==
    IF flds = <<>> THEN outflds
    ELSE AddNewFields(IF PyIn(Head(flds), outflds) THEN outflds
                      ELSE Append(outflds, Head(flds)),
                      Tail(flds))

\* for flds in source_flds_lists: ... gather the fields of every source
RECURSIVE GatherFields(_, _)
GatherFields(outflds, srcs) ==
    IF srcs = <<>> THEN outflds
    ELSE GatherFields(AddNewFields(outflds, Head(srcs).hdr), Tail(srcs))

\* The output fields: the header override when given, the gathered fields
\* otherwise.
CatOutFields(srcs, hashdr, header) ==
    IF hashdr THEN header ELSE GatherFields(<<>>, srcs)

\* The generator expression of the quick path raises IndexError when a
\* field of the output that the source has lies beyond the row's end.
CatQuickRaises(flds, outflds, row) ==
    \E j \in 1..Len(outflds) :
        PyIn(outflds[j], flds) /\ PyIndex(flds, outflds[j]) >= Len(row)

\* tuple(row[flds.index(f)] if f in flds else missing for f in outflds)
CatQuick(flds, outflds, row, missing) ==
    [j \in 1..Len(outflds) |->
        IF PyIn(outflds[j], flds)
        THEN row[PyIndex(flds, outflds[j]) + 1]
        ELSE missing]

\* The short-row path, from field i of the source on: row[i] raising
\* IndexError is passed over; outflds.index(f) raising ValueError (f is
\* not an output field) is not caught and ends the generator.
RECURSIVE CatShort(_, _, _, _, _)
CatShort(flds, outflds, row, outrow, i) ==
    IF i >= Len(flds) THEN [ok |-> TRUE, row |-> outrow]
    ELSE IF i >= Len(row) THEN CatShort(flds, outflds, row, outrow, i + 1)
    ELSE IF ~PyIn(flds[i + 1], outflds) THEN [ok |-> FALSE, row |-> <<>>]
    ELSE CatShort(flds, outflds, row,
                  [k \in 1..Len(outrow) |->
                      IF k = PyIndex(outflds, flds[i + 1]) + 1
                      THEN row[i + 1] ELSE outrow[k]],
                  i + 1)

\* One source row through the try/except of itercat.
CatRow(flds, outflds, row, missing) ==
    IF CatQuickRaises(flds, outflds, row)
    THEN CatShort(flds, outflds, row, Repeat(missing, Len(outflds)), 0)
    ELSE [ok |-> TRUE, row |-> CatQuick(flds, outflds, row, missing)]

\* The sources from g.src on that still have a data row to give.
CatPending(g, srcs) ==
    {t \in g.src..Len(srcs) : g.pos[t] - 1 < Len(srcs[t].rows)}

\* One resumption of itercat over srcs.  The first pulls every source's
\* header and yields the output header; a later one pulls the next data
\* row, moving on to the next source at exhaustion, and yields the output
\* row, raises, or returns when every source is exhausted.
CatResume(g, srcs, missing, hashdr, header) ==
    IF g.pc = "new"
    THEN [g EXCEPT !.pc = "rows", !.pos = [t \in 1..Len(srcs) |-> 1],
                   !.out = <<CatOutFields(srcs, hashdr, header)>>]
    ELSE IF CatPending(g, srcs) = {}
    THEN [g EXCEPT !.pc = "done", !.src = Len(srcs) + 1]
    ELSE LET t == CHOOSE u \in CatPending(g, srcs) :
                      \A w \in CatPending(g, srcs) : u <= w
             res == CatRow(srcs[t].hdr, g.out[1], srcs[t].rows[g.pos[t]],
                           missing)
         IN  IF res.ok
             THEN [g EXCEPT !.src = t, !.pos[t] = g.pos[t] + 1,
                            !.out = Append(g.out, res.row)]
             ELSE [g EXCEPT !.pc = "error", !.src = t, !.pos[t] = g.pos[t] + 1]

\* itercat, first resumption.
CatFirst(i) ==
    /\ view.kind = "cat"
    /\ gen[i].pc = "new"
    /\ gen' = [gen EXCEPT ![i] = CatResume(gen[i], tables, view.missing,
                                           view.hashdr, view.header)]
    /\ UNCHANGED <<view, tables, pep479>>

\* itercat, a later resumption.
CatNext(i) ==
    /\ view.kind = "cat"
    /\ gen[i].pc = "rows"
    /\ gen' = [gen EXCEPT ![i] = CatResume(gen[i], tables, view.missing,
                                           view.hashdr, view.header)]
    /\ UNCHANGED <<view, tables, pep479>>

\* The header overrides tried: fields no source has, fields some source
\* has, a repeated field.
Overrides == SeqsOfLen({"foo", "qux"}, 1, 2)

CatViews ==
    {[kind |-> "cat", missing |-> m, hashdr |-> FALSE, header |-> <<>>] :
        m \in Sentinels}
    \cup {[kind |-> "cat", missing |-> None, hashdr |-> TRUE, header |-> h] :
            h \in Overrides}

\* One or two sources with at most MaxRows data rows between them.
CatSources(srcs) ==
    \E t1 \in TablesFor(1, 0, MaxHdr, 0, MaxRows) :
        \/ srcs = <<t1>>
        \/ \E t2 \in TablesFor(2, 0, MaxHdr, 0, MaxRows - Len(t1.rows)) :
              srcs = <<t1, t2>>

InitCat ==
    /\ view \in CatViews
    /\ CatSources(tables)
    /\ gen = [i \in {1} |-> NewGen(Len(tables))]
    /\ pep479 = TRUE

NextCat ==
    \/ \E i \in DOMAIN gen : CatFirst(i)
    \/ \E i \in DOMAIN gen : CatNext(i)

SpecCat == InitCat /\ [][NextCat]_vars

\* The headers of the sources, one after the other.
RECURSIVE AllFields(_)
AllFields(srcs) ==
    IF srcs = <<>> THEN <<>> ELSE Head(srcs).hdr \o AllFields(Tail(srcs))

\* The source and row number of the m-th data row of srcs[t], srcs[t+1], ...
RECURSIVE Origin(_, _, _)
Origin(srcs, m, t) ==
    IF m <= Len(srcs[t].rows) THEN <<t, m>>
    ELSE Origin(srcs, m - Len(srcs[t].rows), t + 1)

RECURSIVE RowsPulled(_, _)
RowsPulled(pos, t) ==
    IF t > Len(pos) THEN 0 ELSE (pos[t] - 1) + RowsPulled(pos, t + 1)

RECURSIVE TotalRows(_)
TotalRows(srcs) ==
    IF srcs = <<>> THEN 0 ELSE Len(Head(srcs).rows) + TotalRows(Tail(srcs))

\* Output value v stands for field f of a row under header flds: a value
\* the row holds in a column named f, or the sentinel when it holds none.
NamedValue(v, f, flds, row, missing) ==
    LET cols == {c \in 1..Min(Len(flds), Len(row)) : flds[c] = f}
    IN  IF cols = {} THEN v = missing ELSE \E c \in cols : v = row[c]

\* Every data row yielded so far comes from the source rows in source order
\* and holds, per output field, the row's value under that name.
CatRowsByName(g) ==
    \A m \in 1..(Len(g.out) - 1) :
        LET o == Origin(tables, m, 1)
        IN  /\ Len(g.out[m + 1]) = Len(g.out[1])
            /\ \A j \in 1..Len(g.out[1]) :
                  NamedValue(g.out[m + 1][j], g.out[1][j], tables[o[1]].hdr,
                             tables[o[1]].rows[o[2]], view.missing)

\* Source t is not read before the sources ahead of it are exhausted, and
\* every row pulled has yielded a row.
CatInSourceOrder(g) ==
    /\ Len(g.out) - 1 = RowsPulled(g.pos, 1)
    /\ \A t \in 1..Len(tables) : \A u \in 1..(t - 1) :
          g.pos[t] > 1 => g.pos[u] - 1 = Len(tables[u].rows)
    /\ g.pc = "done" => Len(g.out) - 1 = TotalRows(tables)

\* C2: without a header override cat yields the union of the source headers
\* in first-seen order (each name once, at the place of its first
\* occurrence), then the data rows of the sources in source order, each
\* holding per output field the row's value under the source column of that
\* name, or the missing sentinel when it has none.
C2_CatUnionByName ==
    \A i \in DOMAIN gen :
        LET g == gen[i]
            all == AllFields(tables)
        IN  (view.kind = "cat" /\ ~view.hashdr /\ g.pc # "new") =>
              /\ g.pc # "error"
              /\ {g.out[1][j] : j \in 1..Len(g.out[1])} =
                     {all[j] : j \in 1..Len(all)}
              /\ \A a \in 1..Len(g.out[1]) : \A b \in (a + 1)..Len(g.out[1]) :
                    /\ g.out[1][a] # g.out[1][b]
                    /\ PyIndex(all, g.out[1][a]) < PyIndex(all, g.out[1][b])
              /\ CatInSourceOrder(g)
              /\ CatRowsByName(g)

\* C2 witness: two sources sharing one field and each bringing one of its
\* own have both been read to the end, and the second source's row has a
\* sentinel under the first source's own field.
C2_Witness ==
    LET g == gen[1]
    IN  /\ view.kind = "cat" /\ ~view.hashdr /\ g.pc = "done"
        /\ Len(tables) = 2
        /\ tables[1].hdr = <<"foo", "bar">> /\ tables[2].hdr = <<"bar">>
        /\ Len(tables[1].rows) = 1 /\ Len(tables[2].rows) = 1
        /\ g.out = <<<<"foo", "bar">>, <<Cell(1, 1, 1), Cell(1, 1, 2)>>,
                     <<view.missing, Cell(2, 1, 1)>>>>

\* C3: with a header override cat yields exactly the override as header,
\* and for every source row of any length a row by name (source columns
\* outside the override dropped, override columns the source lacks filled
\* with the sentinel); no error is raised because of a row's length.
C3_OverrideNeverRaises ==
    \A i \in DOMAIN gen :
        LET g == gen[i]
        IN  (view.kind = "cat" /\ view.hashdr /\ g.pc # "new") =>
              /\ g.out[1] = view.header
              /\ CatRowsByName(g)
              /\ g.pc # "error"
              /\ CatInSourceOrder(g)

\* row[:n] padded with the sentinel to n values.
SquaredUp(row, n, missing) ==
    [c \in 1..n |-> IF c <= Len(row) THEN row[c] ELSE missing]

\* C4: every source row pulled by cat yields a row with exactly as many
\* values as the output header (short rows padded with the sentinel, long
\* rows cut), and cat of a single table yields that table, its header
\* unchanged and each data row squared up to the header's length.
C4_CatSquaresUp ==
    \A i \in DOMAIN gen :
        LET g == gen[i]
        IN  (view.kind = "cat" /\ g.pc # "new") =>
              /\ g.pc # "error"
              /\ Len(g.out) - 1 = RowsPulled(g.pos, 1)
              /\ \A m \in 1..(Len(g.out) - 1) :
                     Len(g.out[m + 1]) = Len(g.out[1])
              /\ (Len(tables) = 1 /\ ~view.hashdr) =>
                    /\ g.out[1] = tables[1].hdr
                    /\ \A m \in 1..(Len(g.out) - 1) :
                          g.out[m + 1] =
                             SquaredUp(tables[1].rows[m], Len(tables[1].hdr),
                                       view.missing)

(***************************************************************************)
(* tail and addfieldusingcontext: the windowing views.                     *)
(***************************************************************************)
\* TailView.__iter__ / AddFieldUsingContextView.__iter__: every call makes a
\* new generator over the view's parameters.
Iter ==
    /\ Len(gen) < MaxIters
    /\ gen' = Append(gen, NewGen(1))
    /\ UNCHANGED <<view, tables, pep479>>

\* itertail up to its first yield: pull the header and yield it.
TailHeader(g) ==
    [g EXCEPT !.pc = "fill", !.pos[1] = 1, !.out = <<Source.hdr>>]

\* TailCache evicting one row too early (len(cache) >= n).
TailCacheEarly(cache, row, n) ==
    IF Len(cache) + 1 >= n THEN Tail(Append(cache, row))
    ELSE Append(cache, row)

\* cache.append(row); if len(cache) > n: cache.popleft()
TailCache(cache, row, n) ==
    IF Len(cache) + 1 > n THEN Tail(Append(cache, row))
    ELSE Append(cache, row)

\* One turn of "for row in it": pull a data row into the cache.
TailFill(g) ==
    [g EXCEPT !.pos[1] = g.pos[1] + 1,
              !.cache = TailCache(g.cache, Source.rows[g.pos[1]], view.n)]

\* "for row in cache: yield tuple(row)": the next cached row, or the end.
TailDrain(g) ==
    IF Len(g.out) - 1 < Len(g.cache)
    THEN [g EXCEPT !.pc = "drain",
                   !.out = Append(g.out, g.cache[Len(g.out)])]
    ELSE [g EXCEPT !.pc = "done"]

\* itertail, first resumption.
TailFirst(i) ==
    /\ view.kind = "tail"
    /\ gen[i].pc = "new"
    /\ gen' = [gen EXCEPT ![i] = TailHeader(gen[i])]
    /\ UNCHANGED <<view, tables, pep479>>

\* TailPull with the cache kept on the view, shared by its iterations.
TailPullShared(i) ==
    /\ view.kind = "tail"
    /\ gen[i].pc = "fill"
    /\ gen[i].pos[1] - 1 < Len(Source.rows)
    /\ gen' = [j \in DOMAIN gen |->
                 IF j = i THEN TailFill(gen[i])
                 ELSE [gen[j] EXCEPT !.cache = TailFill(gen[i]).cache]]
    /\ UNCHANGED <<view, tables, pep479>>

\* itertail, second resumption, while the source has rows: the loop that
\* fills the cache, one pull at a time.
TailPull(i) ==
    /\ view.kind = "tail"
    /\ gen[i].pc = "fill"
    /\ gen[i].pos[1] - 1 < Len(Source.rows)
    /\ gen' = [gen EXCEPT ![i] = TailFill(gen[i])]
    /\ UNCHANGED <<view, tables, pep479>>

\* TailYield without waiting for the source to run out.
TailYieldEager(i) ==
    /\ view.kind = "tail"
    /\ gen[i].pc \in {"fill", "drain"}
    /\ gen' = [gen EXCEPT ![i] = TailDrain(gen[i])]
    /\ UNCHANGED <<view, tables, pep479>>

\* itertail, once the source is exhausted: the second resumption goes on
\* to yield the first cached row, later ones the next, the last returns.
TailYield(i) ==
    /\ view.kind = "tail"
    /\ \/ gen[i].pc = "fill" /\ gen[i].pos[1] - 1 = Len(Source.rows)
       \/ gen[i].pc = "drain"
    /\ gen' = [gen EXCEPT ![i] = TailDrain(gen[i])]
    /\ UNCHANGED <<view, tables, pep479>>

\* Record(row, fields): the row itself, addressable by name as well.
Record(row, flds) == row

\* What the caller's function reads off a record: nothing off None, else
\* the number of the row it wraps.
Key(rec) ==
    IF rec = <<>> THEN 0
    ELSE IF rec[1] = <<>> THEN 9 ELSE (rec[1][1] \div 10) % 10

\* The caller's query: a value that tells its three arguments.
Query(prv, cur, nxt) == 1000 + 100 * Key(prv) + 10 * Key(cur) + Key(nxt)

\* v = query(prv, cur, nxt); yield tuple(cur) + (v,)
CtxYield(g, prv, cur, nxt) ==
    [g EXCEPT !.prv = prv, !.cur = cur, !.nxt = nxt,
              !.calls = Append(g.calls, <<prv, cur, nxt>>),
              !.out = Append(g.out, Append(cur[1], Query(prv, cur, nxt)))]

\* "for nxt in it" with prv and cur set: pull the next row and yield cur
\* inside the loop, or leave the loop and yield cur as the last row.
CtxLook(g, prv, cur) ==
    IF g.pos[1] - 1 < Len(Source.rows)
    THEN [CtxYield(g, prv, cur,
                   <<Record(Source.rows[g.pos[1]], Source.hdr)>>)
             EXCEPT !.pc = "loop", !.pos[1] = g.pos[1] + 1]
    ELSE [CtxYield(g, prv, cur, <<>>) EXCEPT !.pc = "last"]

\* iteraddfieldusingcontext up to its first yield: pull the header and
\* yield it with the new field appended.
CtxHeader(g) ==
    [g EXCEPT !.pc = "start", !.pos[1] = 1,
              !.out = <<Append(Source.hdr, view.field)>>]

\* prv = None; cur = next(it); then look ahead.  With no data row the
\* StopIteration of next(it) escapes the generator body.
CtxBegin(g) ==
    IF Len(Source.rows) = 0
    THEN [g EXCEPT !.pc = IF pep479 THEN "error" ELSE "done"]
    ELSE CtxLook([g EXCEPT !.pos[1] = 2], <<>>,
                 <<Record(Source.rows[1], Source.hdr)>>)

\* CtxAgain without "prv = cur".
CtxAgainStalePrv(g) == CtxLook(g, g.prv, g.nxt)

\* prv = cur; cur = nxt; then look ahead again.
CtxAgain(g) == CtxLook(g, g.cur, g.nxt)

\* iteraddfieldusingcontext, first resumption.
CtxFirst(i) ==
    /\ view.kind = "context"
    /\ gen[i].pc = "new"
    /\ gen' = [gen EXCEPT ![i] = CtxHeader(gen[i])]
    /\ UNCHANGED <<view, tables, pep479>>

\* Second resumption: the first row, or none.
CtxStart(i) ==
    /\ view.kind = "context"
    /\ gen[i].pc = "start"
    /\ gen' = [gen EXCEPT ![i] = CtxBegin(gen[i])]
    /\ UNCHANGED <<view, tables, pep479>>

\* A resumption inside the loop.
CtxLoop(i) ==
    /\ view.kind = "context"
    /\ gen[i].pc = "loop"
    /\ gen' = [gen EXCEPT ![i] = CtxAgain(gen[i])]
    /\ UNCHANGED <<view, tables, pep479>>

\* The resumption after the last row was yielded: the generator returns.
CtxEnd(i) ==
    /\ view.kind = "context"
    /\ gen[i].pc = "last"
    /\ gen' = [gen EXCEPT ![i] = [gen[i] EXCEPT !.pc = "done"]]
    /\ UNCHANGED <<view, tables, pep479>>

WindowViews ==
    {[kind |-> "tail", n |-> n, field |-> NoName] : n \in 0..(MaxStream + 1)}
    \cup {[kind |-> "context", n |-> 0, field |-> "baz"]}

InitWindow ==
    /\ view \in WindowViews
    /\ tables \in {<<t>> : t \in PlainTables(1, 1, 1, 0, MaxStream)}
    /\ gen = <<>>
    /\ pep479 \in (IF view.kind = "context" THEN BOOLEAN ELSE {TRUE})

NextWindow ==
    \/ Iter
    \/ \E i \in DOMAIN gen : TailFirst(i)
    \/ \E i \in DOMAIN gen : TailPull(i)
    \/ \E i \in DOMAIN gen : TailYield(i)
    \/ \E i \in DOMAIN gen : CtxFirst(i)
    \/ \E i \in DOMAIN gen : CtxStart(i)
    \/ \E i \in DOMAIN gen : CtxLoop(i)
    \/ \E i \in DOMAIN gen : CtxEnd(i)

SpecWindow == InitWindow /\ [][NextWindow]_vars

\* One step of a generator of the windowing view on its own.
WindowStep(g) ==
    IF view.kind = "tail"
    THEN IF g.pc = "new" THEN TailHeader(g)
         ELSE IF g.pc = "fill" /\ g.pos[1] - 1 < Len(Source.rows)
         THEN TailFill(g)
         ELSE TailDrain(g)
    ELSE IF g.pc = "new" THEN CtxHeader(g)
         ELSE IF g.pc = "start" THEN CtxBegin(g)
         ELSE IF g.pc = "loop" THEN CtxAgain(g)
         ELSE [g EXCEPT !.pc = "done"]

\* A lone iteration of the view over its source, run to its end.
RECURSIVE RunAlone(_)
RunAlone(g) ==
    IF g.pc \in {"done", "error"} THEN g ELSE RunAlone(WindowStep(g))

IsPrefix(s, t) == Len(s) <= Len(t) /\ s = SubSeq(t, 1, Len(s))

\* C5: however many iterations of one tail or addfieldusingcontext view
\* are started and however their resumptions interleave, each has yielded
\* a prefix of what a lone iteration over the same source yields, and once
\* finished exactly that sequence, ending the same way.
C5_IterationsIndependent ==
    \A i \in DOMAIN gen :
        LET lone == RunAlone(NewGen(1))
        IN  /\ IsPrefix(gen[i].out, lone.out)
            /\ gen[i].pc \in {"done", "error"} =>
                  (gen[i].out = lone.out /\ gen[i].pc = lone.pc)

\* C5 witness: two iterations of one tail view interleaved pull by pull:
\* the first finished, the second still filling a cache of its own.
C5_Witness ==
    /\ Len(gen) = 2 /\ view.kind = "tail"
    /\ gen[1].pc = "done" /\ Len(gen[1].out) = 3
    /\ gen[2].pc = "fill" /\ Len(gen[2].cache) = 1
    /\ gen[2].cache # gen[1].cache

\* C7: for n >= 0 and a source of k data rows a finished iteration of
\* tail(T, n) has yielded the source header and then exactly the last
\* min(n, k) data rows in their original order (all k when k < n).
C7_TailLastRows ==
    \A i \in DOMAIN gen :
        LET g == gen[i]
            k == Len(Source.rows)
            m == Min(view.n, k)
        IN  view.kind = "tail" =>
              /\ g.pc # "new" => g.out[1] = Source.hdr
              /\ g.pc # "error"
              /\ g.pc = "done" =>
                    /\ Len(g.out) = m + 1
                    /\ \A r \in 1..m : g.out[r + 1] = Source.rows[k - m + r]

\* C7 witness: a finished tail of 2 over 3 rows, the first row evicted.
C7_Witness ==
    /\ view.kind = "tail" /\ view.n = 2 /\ Len(Source.rows) = 3
    /\ Len(gen) >= 1 /\ gen[1].pc = "done"
    /\ gen[1].out = <<Source.hdr, Source.rows[2], Source.rows[3]>>

\* The record at row r of the source, or None outside 1..k.
RecAt(r) ==
    IF r \in 1..Len(Source.rows) THEN <<Source.rows[r]>> ELSE <<>>

\* C9: for a source of k >= 1 data rows addfieldusingcontext yields the
\* header with the new field appended, then the k rows in order, the r-th
\* being row r followed by query(prev, row r, next) with prev None for the
\* first row and next None for the last; query is called once per row, in
\* row order.
C9_ContextWindow ==
    \A i \in DOMAIN gen :
        LET g == gen[i]
            k == Len(Source.rows)
        IN  (view.kind = "context" /\ k >= 1) =>
              /\ g.pc # "error"
              /\ g.pc # "new" => g.out[1] = Append(Source.hdr, view.field)
              /\ Len(g.calls) = Len(g.out) - (IF g.pc = "new" THEN 0 ELSE 1)
              /\ \A r \in 1..Len(g.calls) :
                    /\ g.calls[r] = <<RecAt(r - 1), RecAt(r), RecAt(r + 1)>>
                    /\ g.out[r + 1] =
                          Append(Source.rows[r],
                                 Query(RecAt(r - 1), RecAt(r), RecAt(r + 1)))
              /\ g.pc \in {"last", "done"} => Len(g.out) = k + 1

\* C9 witness: a finished iteration over three rows, whose middle row saw
\* both neighbours.
C9_Witness ==
    /\ view.kind = "context" /\ Len(Source.rows) = 3
    /\ Len(gen) >= 1 /\ gen[1].pc = "done"
    /\ Len(gen[1].calls) = 3
    /\ gen[1].calls[2] = <<<<Source.rows[1]>>, <<Source.rows[2]>>,
                           <<Source.rows[3]>>>>

\* C14: within one iteration of tail the header is yielded after pulling
\* the header and nothing else, a data row is yielded only once the source
\* has run out, with no pull in the same step, and a data row is pulled
\* only while no data row has been yielded: every pull of a data row comes
\* before every yield of a data row.
C14_TailPullsBeforeYields ==
    [][\A i \in DOMAIN gen :
          view.kind = "tail" =>
            /\ (gen[i].pc = "new" /\ gen'[i].pc # "new") =>
                  (gen'[i].pos[1] = 1 /\ gen'[i].out = <<Source.hdr>>)
            /\ (Len(gen'[i].out) > Len(gen[i].out) /\ Len(gen'[i].out) >= 2) =>
                  /\ gen[i].pos[1] = Len(Source.rows) + 1
                  /\ gen'[i].pos = gen[i].pos
            /\ (gen'[i].pos[1] > gen[i].pos[1] /\ gen[i].pos[1] >= 1) =>
                  /\ Len(gen[i].out) = 1
                  /\ gen'[i].out = gen[i].out]_vars

\* C14 witness: an iteration that has pulled all three data rows of its
\* source and then yielded the first of the two rows it kept.
C14_Witness ==
    /\ view.kind = "tail" /\ view.n = 2 /\ Len(Source.rows) = 3
    /\ Len(gen) >= 1 /\ gen[1].pc = "drain"
    /\ gen[1].pos[1] = 4 /\ Len(gen[1].out) = 2

\* C15: over a source with a header and no data rows, addfieldusingcontext
\* yields the extended header and then ends normally: no data row, no call
\* of query, no error.
C15_ContextEmptyEndsNormally ==
    \A i \in DOMAIN gen :
        (view.kind = "context" /\ Len(Source.rows) = 0) =>
            /\ gen[i].pc # "error"
            /\ gen[i].calls = <<>>
            /\ gen[i].pc # "new" =>
                  gen[i].out = <<Append(Source.hdr, view.field)>>

(***************************************************************************)
(* annex: join by row order.                                               *)
(***************************************************************************)
\* The block of one source with long rows left uncut.
AnnexBlockUncut(src, present, row, missing) ==
    LET lh == Len(src.hdr)
    IN  IF ~present THEN Repeat(missing, lh)
        ELSE IF Len(row) < lh THEN row \o Repeat(missing, lh - Len(row))
        ELSE row

\* The block source number t gives to the output row: sentinels when the
\* source has run out (row is None), else its row padded or cut to the
\* length of its header.
AnnexBlock(src, present, row, missing) ==
    LET lh == Len(src.hdr)
    IN  IF ~present THEN Repeat(missing, lh)
        ELSE IF Len(row) < lh THEN row \o Repeat(missing, lh - Len(row))
        ELSE IF Len(row) > lh THEN SubSeq(row, 1, lh)
        ELSE row


\* outrow.extend(row) over the sources t, t + 1, ...
RECURSIVE AnnexRow(_, _, _, _)
AnnexRow(g, srcs, missing, t) ==
    IF t > Len(srcs) THEN <<>>
    ELSE LET present == g.pos[t] - 1 < Len(srcs[t].rows)
         IN  AnnexBlock(srcs[t], present,
                       IF present THEN srcs[t].rows[g.pos[t]] ELSE <<>>,
                       missing)
             \o AnnexRow(g, srcs, missing, t + 1)

\* One resumption of iterannex.  The first pulls every header and yields
\* their concatenation; a later one pulls a row from every source that
\* still has one (izip_longest) and yields the joined row, or returns when
\* all are exhausted.
AnnexResume(g, srcs, missing) ==
    IF g.pc = "new"
    THEN [g EXCEPT !.pc = "rows", !.pos = [t \in 1..Len(srcs) |-> 1],
                   !.out = <<AllFields(srcs)>>]
    ELSE IF \A t \in 1..Len(srcs) : g.pos[t] - 1 >= Len(srcs[t].rows)
    THEN [g EXCEPT !.pc = "done"]
    ELSE [g EXCEPT !.pos = [t \in 1..Len(srcs) |->
                              IF g.pos[t] - 1 < Len(srcs[t].rows)
                              THEN g.pos[t] + 1 ELSE g.pos[t]],
                   !.out = Append(g.out, AnnexRow(g, srcs, missing, 1))]

\* iterannex, first resumption.
AnnexFirst(i) ==
    /\ view.kind = "annex"
    /\ gen[i].pc = "new"
    /\ gen' = [gen EXCEPT ![i] = AnnexResume(gen[i], tables, view.missing)]
    /\ UNCHANGED <<view, tables, pep479>>

\* iterannex, a later resumption.
AnnexNext(i) ==
    /\ view.kind = "annex"
    /\ gen[i].pc = "rows"
    /\ gen' = [gen EXCEPT ![i] = AnnexResume(gen[i], tables, view.missing)]
    /\ UNCHANGED <<view, tables, pep479>>

\* annex never looks at a field's name: one header per length is enough,
\* and the headers of two sources share their leading names.
AnnexTables(t) == PlainTables(t, 0, MaxHdr, 0, MaxRows)

InitAnnex ==
    /\ view \in {[kind |-> "annex", missing |-> m] : m \in Sentinels}
    /\ tables \in {<<t1>> : t1 \in AnnexTables(1)}
                  \cup {<<t1, t2>> : t1 \in AnnexTables(1),
                                     t2 \in AnnexTables(2)}
    /\ gen = [i \in {1} |-> NewGen(Len(tables))]
    /\ pep479 = TRUE

NextAnnex ==
    \/ \E i \in DOMAIN gen : AnnexFirst(i)
    \/ \E i \in DOMAIN gen : AnnexNext(i)

SpecAnnex == InitAnnex /\ [][NextAnnex]_vars

\* The number of output columns ahead of the block of source t.
RECURSIVE Offset(_, _)
Offset(srcs, t) ==
    IF t = 1 THEN 0 ELSE Offset(srcs, t - 1) + Len(srcs[t - 1].hdr)

RECURSIVE MostRows(_)
MostRows(srcs) ==
    IF srcs = <<>> THEN 0
    ELSE Max(Len(Head(srcs).rows), MostRows(Tail(srcs)))

\* C8: annex yields the concatenation of the source headers in source
\* order (repeated names kept), then as many rows as the longest source
\* has; row N is one block per source of that source's header length: the
\* source's N-th row cut to the header's length, padded with the sentinel,
\* or all sentinels when the source has fewer than N rows.  So every row
\* is as long as the output header.
C8_AnnexBlocks ==
    \A i \in DOMAIN gen :
        LET g == gen[i]
            width == Offset(tables, Len(tables) + 1)
        IN  (view.kind = "annex" /\ g.pc # "new") =>
              /\ g.pc # "error"
              /\ Len(g.out[1]) = width
              /\ Len(g.out) - 1 <= MostRows(tables)
              /\ g.pc = "done" => Len(g.out) - 1 = MostRows(tables)
              /\ \A N \in 1..(Len(g.out) - 1) : Len(g.out[N + 1]) = width
              /\ \A t \in 1..Len(tables) : \A c \in 1..Len(tables[t].hdr) :
                    /\ g.out[1][Offset(tables, t) + c] = tables[t].hdr[c]
                    /\ \A N \in 1..(Len(g.out) - 1) :
                          g.out[N + 1][Offset(tables, t) + c] =
                             IF /\ N <= Len(tables[t].rows)
                                /\ c <= Len(tables[t].rows[N])
                             THEN Cell(t, N, c)
                             ELSE view.missing

\* C8 witness: two sources with a shared field name and unequal row
\* counts, a long row joined with a short one, then a row for which the
\* second source had run out.
C8_Witness ==
    /\ view.kind = "annex" /\ gen[1].pc = "done" /\ Len(tables) = 2
    /\ tables[1].hdr = <<"foo", "bar">> /\ tables[2].hdr = <<"foo", "bar">>
    /\ Len(tables[1].rows) = 2 /\ Len(tables[2].rows) = 1
    /\ Len(tables[1].rows[1]) = 3 /\ Len(tables[2].rows[1]) = 1
    /\ gen[1].out[2] = <<Cell(1, 1, 1), Cell(1, 1, 2), Cell(2, 1, 1),
                         view.missing>>
    /\ gen[1].out[3][3] = view.missing /\ gen[1].out[3][4] = view.missing

(***************************************************************************)
(* addfield: a fixed or computed column, over cat(source).                 *)
(***************************************************************************)
\* The caller's function: a value that tells the record it was given.
AddFieldValue(rec) == 1000 + 10 * Len(rec) + Key(<<rec>>)

\* The locals of a fresh iteraddfield generator; inner is the iteration of
\* the CatView that AddFieldView.__init__ wraps the source in.
NewAddField ==
    [pc |-> "new", index |-> 0, out |-> <<>>, calls |-> <<>>,
     inner |-> NewGen(1)]

\* next(it) on cat(source, missing=missing)
AddFieldPull(g) == CatResume(g.inner, <<Source>>, view.missing, FALSE, <<>>)

\* iteraddfield, first resumption: pull the header of the squared-up
\* source, settle the index, yield the header with the field inserted.
AddFieldFirst(i) ==
    /\ view.kind = "addfield"
    /\ gen[i].pc = "new"
    /\ LET inner == AddFieldPull(gen[i])
           flds == inner.out[1]
           index == IF view.hasindex THEN view.index ELSE Len(flds)
       IN  gen' = [gen EXCEPT ![i] =
                     [gen[i] EXCEPT !.pc = "rows", !.inner = inner,
                               !.index = index,
                               !.out = <<PyInsert(flds, index, view.field)>>]]
    /\ UNCHANGED <<view, tables, pep479>>

\* iteraddfield, a later resumption: pull the next squared-up row and
\* yield it with the value (fixed, or computed from the record) inserted.
AddFieldNext(i) ==
    /\ view.kind = "addfield"
    /\ gen[i].pc = "rows"
    /\ LET inner == AddFieldPull(gen[i])
           row == inner.out[Len(inner.out)]
           rec == Record(row, inner.out[1])
       IN  gen' = [gen EXCEPT ![i] =
                     IF inner.pc \in {"done", "error"}
                     THEN [gen[i] EXCEPT !.pc = inner.pc, !.inner = inner]
                     ELSE IF view.callable
                     THEN [gen[i] EXCEPT !.inner = inner,
                             !.calls = Append(gen[i].calls, rec),
                             !.out = Append(gen[i].out,
                                 PyInsert(rec, gen[i].index,
                                          AddFieldValue(rec)))]
                     ELSE [gen[i] EXCEPT !.inner = inner,
                             !.out = Append(gen[i].out,
                                 PyInsert(row, gen[i].index, view.value))]]
    /\ UNCHANGED <<view, tables, pep479>>

AddFieldViews ==
    {[kind |-> "addfield", field |-> "baz", callable |-> c, value |-> 42,
      hasindex |-> h, index |-> x, missing |-> m] :
        c \in BOOLEAN, h \in {TRUE}, x \in (-1)..(MaxHdr + 1),
        m \in Sentinels}
    \cup
    {[kind |-> "addfield", field |-> "baz", callable |-> c, value |-> 42,
      hasindex |-> FALSE, index |-> 0, missing |-> m] :
        c \in BOOLEAN, m \in Sentinels}

InitAddField ==
    /\ view \in AddFieldViews
    /\ tables \in {<<t>> : t \in TablesFor(1, 0, MaxHdr, 0, MaxRows)}
    /\ gen = [i \in {1} |-> NewAddField]
    /\ pep479 = TRUE

NextAddField ==
    \/ \E i \in DOMAIN gen : AddFieldFirst(i)
    \/ \E i \in DOMAIN gen : AddFieldNext(i)

SpecAddField == InitAddField /\ [][NextAddField]_vars

\* C10: addfield yields the source header with the new field inserted at
\* the target index (at the end when none is given), every source column
\* kept, and for each source row that row brought to the source header's
\* length with the value inserted at the same index: the literal, or the
\* result of calling value once for that row on the normalized row.
C10_AddFieldKeepsColumns ==
    \A i \in DOMAIN gen :
        LET g == gen[i]
            n == Len(Source.hdr)
            index == IF view.hasindex THEN view.index ELSE n
            norm(r) == SquaredUp(Source.rows[r], n, view.missing)
        IN  (view.kind = "addfield" /\ g.pc # "new") =>
              /\ g.pc # "error"
              /\ g.out[1] = PyInsert(Source.hdr, index, view.field)
              /\ g.pc = "done" => Len(g.out) - 1 = Len(Source.rows)
              /\ Len(g.calls) = IF view.callable THEN Len(g.out) - 1 ELSE 0
              /\ \A r \in 1..Len(g.calls) : g.calls[r] = norm(r)
              /\ \A r \in 1..(Len(g.out) - 1) :
                    g.out[r + 1] =
                       PyInsert(norm(r), index,
                                IF view.callable THEN AddFieldValue(norm(r))
                                ELSE view.value)

(***************************************************************************)
(* addcolumn: a column of values supplied from outside.                    *)
(***************************************************************************)
\* A sentinel that is the empty tuple (), the one sentinel a row can equal.
Unit == -2

\* The column values given: the first n of 71, 72, ...
ColOf(n) == [j \in 1..n |-> 70 + j]

\* str(f): the field names of the model are strings already.
PyStr(f) == f

\* One item of izip_longest(it, col, fillvalue=missing): the next row and
\* the next value, the fill value standing in for whichever has run out.
ZipRow(g) ==
    IF g.pos[1] - 1 < Len(Source.rows)
    THEN [fill |-> FALSE, row |-> Source.rows[g.pos[1]]]
    ELSE [fill |-> TRUE, row |-> <<>>]

ZipVal(g) ==
    IF g.pos[2] < Len(view.col) THEN view.col[g.pos[2] + 1]
    ELSE view.missing

\* row == missing: true of the fill value, and of a row equal to the
\* sentinel.
RowEqualsMissing(z, missing) ==
    z.fill \/ (missing = Unit /\ z.row = <<>>)

\* The locals of a fresh iteraddcolumn generator: cursors over the table
\* and over col.
NewAddColumn == NewGen(2)

\* iteraddcolumn, first resumption: pull the header, settle the index,
\* yield the header with the field inserted.
AddColumnFirst(i) ==
    /\ view.kind = "addcolumn"
    /\ gen[i].pc = "new"
    /\ LET fields == [k \in 1..Len(Source.hdr) |-> PyStr(Source.hdr[k])]
           index == IF view.hasindex THEN view.index ELSE Len(fields)
       IN  gen' = [gen EXCEPT ![i] =
                     [gen[i] EXCEPT !.pc = "rows", !.pos = <<1, 0>>,
                               !.indices = <<index>>,
                               !.out = <<PyInsert(fields, index,
                                                  view.field)>>]]
    /\ UNCHANGED <<view, tables, pep479>>

\* iteraddcolumn, a later resumption: one step of izip_longest, the row
\* (or a row of sentinels) with the value inserted; the end when the table
\* and col have both run out.
AddColumnNext(i) ==
    /\ view.kind = "addcolumn"
    /\ gen[i].pc = "rows"
    /\ LET g == gen[i]
           z == ZipRow(g)
           hasval == g.pos[2] < Len(view.col)
           row == IF RowEqualsMissing(z, view.missing)
                  THEN Repeat(view.missing, Len(Source.hdr))
                  ELSE z.row
       IN  gen' = [gen EXCEPT ![i] =
                     IF z.fill /\ ~hasval
                     THEN [g EXCEPT !.pc = "done",
                                    !.pos = <<Len(Source.rows) + 1,
                                              Len(view.col)>>]
                     ELSE [g EXCEPT
                             !.pos = <<IF z.fill THEN g.pos[1]
                                       ELSE g.pos[1] + 1,
                                       IF hasval THEN g.pos[2] + 1
                                       ELSE g.pos[2]>>,
                             !.out = Append(g.out,
                                 PyInsert(row, g.indices[1], ZipVal(g)))]]
    /\ UNCHANGED <<view, tables, pep479>>

AddColumnViews ==
    {[kind |-> "addcolumn", field |-> "baz", col |-> ColOf(n),
      hasindex |-> TRUE, index |-> x, missing |-> m] :
        n \in 0..(MaxRows + 1), x \in (-1)..(MaxHdr + 1),
        m \in Sentinels \cup {Unit}}
    \cup
    {[kind |-> "addcolumn", field |-> "baz", col |-> ColOf(n),
      hasindex |-> FALSE, index |-> 0, missing |-> m] :
        n \in 0..(MaxRows + 1), m \in Sentinels \cup {Unit}}

InitAddColumn ==
    /\ view \in AddColumnViews
    /\ tables \in {<<t>> : t \in PlainTables(1, 0, MaxHdr, 0, MaxRows)}
    /\ gen = [i \in {1} |-> NewAddColumn]
    /\ pep479 = TRUE

NextAddColumn ==
    \/ \E i \in DOMAIN gen : AddColumnFirst(i)
    \/ \E i \in DOMAIN gen : AddColumnNext(i)

SpecAddColumn == InitAddColumn /\ [][NextAddColumn]_vars

\* C13: addcolumn pairs the data rows with the values of col by position
\* and yields max(number of data rows, length of col) rows: while both
\* last, the row with its value inserted at the target index; once the
\* table has run out, a row of header-length sentinels with the value
\* inserted; once col has run out, the table row with the sentinel
\* inserted as the value.
C13_AddColumnPairs ==
    \A i \in DOMAIN gen :
        LET g == gen[i]
            n == Len(Source.hdr)
            k == Len(Source.rows)
            index == IF view.hasindex THEN view.index ELSE n
        IN  (view.kind = "addcolumn" /\ g.pc # "new") =>
              /\ g.pc # "error"
              /\ g.pc = "done" => Len(g.out) - 1 = Max(k, Len(view.col))
              /\ Len(g.out) - 1 <= Max(k, Len(view.col))
              /\ \A r \in 1..(Len(g.out) - 1) :
                    g.out[r + 1] =
                       PyInsert(IF r <= k THEN Source.rows[r]
                                ELSE Repeat(view.missing, n),
                                index,
                                IF r <= Len(view.col) THEN view.col[r]
                                ELSE view.missing)

============================================================================
